---- MODULE Spec2Model ----
(***************************************************************************)
(* Model of makeQueue (src/src/queue.ts): a sequence of items kept ordered *)
(* by a timestamp held in a side table (WeakMap) and then by the item key. *)
(* Items are identities 1..NumItems; several identities may carry the same *)
(* key.  Indices returned by the operators are 0-based as in the source.   *)
(***************************************************************************)
EXTENDS Integers, Sequences, FiniteSets, TLC

VARIABLES items, timestampMap, op, ret, pre, drain

vars == <<items, timestampMap, op, ret, pre, drain>>

\* ---------------------------------------------------------------- bounds
NumItems == 3
MaxTs == 1
MaxLen == 3

Items == 1..NumItems
Timestamps == 0..MaxTs
\* Date.now() where a call leaves the timestamp out: the latest timestamp
Clock == {MaxTs}

\* ------------------------------------------------------------ item keys
\* QueueItem.key, a string, as its sequence of code units ("a", "ab", "b").
\* Items 1 and 3 are distinct objects with the same key.
KeyOf(i) ==
  CASE i = 1 -> <<97>>
    [] i = 2 -> <<97, 98>>
    [] i = 3 -> <<97>>
    [] OTHER -> <<98>>

\* JavaScript's > on strings: lexicographic by code unit, a proper prefix
\* is smaller.
RECURSIVE StrGreater(_, _)
StrGreater(a, b) ==
  IF a = <<>> THEN FALSE
  ELSE IF b = <<>> THEN TRUE
  ELSE IF Head(a) # Head(b) THEN Head(a) > Head(b)
  ELSE StrGreater(Tail(a), Tail(b))

\* -------------------------------------------------------------- WeakMap
Has(map, x) == x \in DOMAIN map
MapSet(map, x, t) == [y \in (DOMAIN map) \cup {x} |-> IF y = x THEN t ELSE map[y]]
MapDelete(map, x) == [y \in (DOMAIN map) \ {x} |-> map[y]]
EmptyMap == [y \in {} |-> 0]

\* --------------------------------------------------------------- arrays
Range(s) == {s[i] : i \in 1..Len(s)}
\* items.splice(index, 0, x) and items.splice(index, 1), index 0-based
SpliceIn(s, index, x) == SubSeq(s, 1, index) \o <<x>> \o SubSeq(s, index + 1, Len(s))
SpliceOut(s, index) == SubSeq(s, 1, index) \o SubSeq(s, index + 2, Len(s))

\* -------------------------------------------------------------- enqueue
\* const newItemTimestamp = timestampMap.get(newItem) ?? timestamp
ResolveTimestamp_or(map, newItem, timestamp) ==
  IF Has(map, newItem) /\ map[newItem] # 0 THEN map[newItem] ELSE timestamp
ResolveTimestamp(map, newItem, timestamp) ==
  IF Has(map, newItem) THEN map[newItem] ELSE timestamp

\* the test that ends the backward scan
ComesAfter_noTie(newTs, newKey, endTs, endKey) == newTs > endTs
ComesAfter_ge(newTs, newKey, endTs, endKey) == newTs >= endTs
ComesAfter_orEqual(newTs, newKey, endTs, endKey) ==
  newTs > endTs \/ (newTs = endTs /\ ~StrGreater(endKey, newKey))
ComesAfter(newTs, newKey, endTs, endKey) ==
  newTs > endTs \/ (newTs = endTs /\ StrGreater(newKey, endKey))

\* the scan with a missing timestamp read as 0 instead of raising the fault
RECURSIVE ScanInsertIndex_defaultZero(_, _, _, _, _)
ScanInsertIndex_defaultZero(its, map, newItem, newTs, endItemIndex) ==
  IF endItemIndex < 0 THEN [threw |-> FALSE, index |-> endItemIndex]
  ELSE LET endItem == its[endItemIndex + 1]
           endItemTimestamp == IF Has(map, endItem) THEN map[endItem] ELSE 0
       IN IF ComesAfter(newTs, KeyOf(newItem), endItemTimestamp, KeyOf(endItem))
          THEN [threw |-> FALSE, index |-> endItemIndex]
          ELSE ScanInsertIndex_defaultZero(its, map, newItem, newTs, endItemIndex - 1)

\* the while loop of enqueue, from endItemIndex downwards
RECURSIVE ScanInsertIndex(_, _, _, _, _)
ScanInsertIndex(its, map, newItem, newTs, endItemIndex) ==
  IF endItemIndex < 0 THEN [threw |-> FALSE, index |-> endItemIndex]
  ELSE LET endItem == its[endItemIndex + 1] IN
       IF ~Has(map, endItem) THEN [threw |-> TRUE, index |-> endItemIndex]
       ELSE IF ComesAfter(newTs, KeyOf(newItem), map[endItem], KeyOf(endItem))
            THEN [threw |-> FALSE, index |-> endItemIndex]
            ELSE ScanInsertIndex(its, map, newItem, newTs, endItemIndex - 1)

enqueue(its, map, newItem, timestamp) ==
  LET newItemTimestamp == ResolveTimestamp(map, newItem, timestamp)
      scan == ScanInsertIndex(its, map, newItem, newItemTimestamp, Len(its) - 1)
  IN IF scan.threw
     THEN [items |-> its, map |-> map, threw |-> TRUE, value |-> 0]
     ELSE [items |-> SpliceIn(its, scan.index + 1, newItem),
           map |-> MapSet(map, newItem, newItemTimestamp),
           threw |-> FALSE, value |-> 0]

\* -------------------------------------------------------------- dequeue
dequeue_pop(its, map) ==
  IF its = <<>>
  THEN [items |-> its, map |-> map, threw |-> FALSE, value |-> 0]
  ELSE [items |-> SubSeq(its, 1, Len(its) - 1), map |-> MapDelete(map, its[Len(its)]),
        threw |-> FALSE, value |-> its[Len(its)]]
dequeue_throwOnEmpty(its, map) ==
  IF its = <<>>
  THEN [items |-> its, map |-> map, threw |-> TRUE, value |-> 0]
  ELSE [items |-> Tail(its), map |-> MapDelete(map, Head(its)),
        threw |-> FALSE, value |-> Head(its)]
\* value 0 stands for undefined
dequeue(its, map) ==
  IF its = <<>>
  THEN [items |-> its, map |-> map, threw |-> FALSE, value |-> 0]
  ELSE [items |-> Tail(its), map |-> MapDelete(map, Head(its)),
        threw |-> FALSE, value |-> Head(its)]

\* --------------------------------------------------- indexOfItemInQueue
\* a hit on equal timestamp and key instead of on identity
Direction_byOrder(needleItem, needleTs, haystackItem, haystackTs) ==
  IF needleTs - haystackTs # 0 THEN needleTs - haystackTs
  ELSE IF StrGreater(KeyOf(needleItem), KeyOf(haystackItem)) THEN 1
  ELSE IF StrGreater(KeyOf(haystackItem), KeyOf(needleItem)) THEN -1
  ELSE 0
Direction(needleItem, needleTs, haystackItem, haystackTs) ==
  IF needleItem = haystackItem THEN 0
  ELSE IF needleTs - haystackTs # 0 THEN needleTs - haystackTs
  ELSE IF StrGreater(KeyOf(needleItem), KeyOf(haystackItem)) THEN 1 ELSE -1

RECURSIVE BinarySearch(_, _, _, _, _)
BinarySearch(its, map, needleItem, l, r) ==
  IF l > r THEN [threw |-> FALSE, index |-> -1]
  ELSE LET index == (l + r) \div 2
           haystackItem == its[index + 1]
       IN IF ~Has(map, haystackItem) THEN [threw |-> TRUE, index |-> -1]
          ELSE LET direction == Direction(needleItem, map[needleItem],
                                          haystackItem, map[haystackItem])
               IN IF direction > 0
                  THEN BinarySearch(its, map, needleItem, index + 1, r)
                  ELSE IF direction < 0
                       THEN BinarySearch(its, map, needleItem, l, index - 1)
                       ELSE [threw |-> FALSE, index |-> index]

\* without the early return an undefined needle timestamp makes direction
\* NaN, which is neither > 0 nor < 0, so the first midpoint is returned
indexOfItemInQueue_noEarlyReturn(its, map, needleItem) ==
  IF Has(map, needleItem) THEN BinarySearch(its, map, needleItem, 0, Len(its) - 1)
  ELSE IF its = <<>> THEN [threw |-> FALSE, index |-> -1]
  ELSE IF ~Has(map, its[((Len(its) - 1) \div 2) + 1]) THEN [threw |-> TRUE, index |-> -1]
  ELSE [threw |-> FALSE, index |-> (Len(its) - 1) \div 2]
indexOfItemInQueue(its, map, needleItem) ==
  IF ~Has(map, needleItem) THEN [threw |-> FALSE, index |-> -1]
  ELSE BinarySearch(its, map, needleItem, 0, Len(its) - 1)

\* --------------------------------------------------------------- remove
remove_noDelete(its, map, item) ==
  LET found == indexOfItemInQueue(its, map, item) IN
  IF found.threw THEN [items |-> its, map |-> map, threw |-> TRUE, value |-> 0]
  ELSE IF found.index >= 0
       THEN [items |-> SpliceOut(its, found.index), map |-> map,
             threw |-> FALSE, value |-> 0]
       ELSE [items |-> its, map |-> map, threw |-> FALSE, value |-> 0]
remove(its, map, item) ==
  LET found == indexOfItemInQueue(its, map, item) IN
  IF found.threw THEN [items |-> its, map |-> map, threw |-> TRUE, value |-> 0]
  ELSE IF found.index >= 0
       THEN [items |-> SpliceOut(its, found.index),
             map |-> MapDelete(map, its[found.index + 1]),
             threw |-> FALSE, value |-> 0]
       ELSE [items |-> its, map |-> map, threw |-> FALSE, value |-> 0]

\* -------------------------------------------------------------- requeue
\* now is the Date.now() default handed to the inner enqueue
requeue_noSet(its, map, item, timestamp, now) ==
  LET removed == remove(its, map, item) IN
  IF removed.threw THEN removed
  ELSE enqueue(removed.items, removed.map, item, now)
requeue(its, map, item, timestamp, now) ==
  LET removed == remove(its, map, item) IN
  IF removed.threw THEN removed
  ELSE enqueue(removed.items, MapSet(removed.map, item, timestamp), item, now)

\* ----------------------------------------------------------------- list
list == items

\* ------------------------------------------------------------ the calls
State == [items |-> items, map |-> timestampMap]
NoCall == [name |-> "none", item |-> 0, ts |-> 0]
NoRet == [threw |-> FALSE, value |-> 0]
NoDrain == [phase |-> "fill", out |-> <<>>, snap |-> [items |-> <<>>, map |-> EmptyMap]]

Init ==
  /\ items = <<>>
  /\ timestampMap = EmptyMap
  /\ op = NoCall
  /\ ret = NoRet
  /\ pre = [items |-> <<>>, map |-> EmptyMap]
  /\ drain = NoDrain

\* one call: res is what the call leaves behind and returns
Apply(name, item, ts, res) ==
  \E r \in {res} :
    /\ Len(r.items) <= MaxLen
    /\ items' = r.items
    /\ timestampMap' = r.map
    /\ op' = [name |-> name, item |-> item, ts |-> ts]
    /\ ret' = [threw |-> r.threw, value |-> r.value]
    /\ pre' = State

Enqueue ==
  \E item \in Items, ts \in Timestamps :
    /\ Apply("enqueue", item, ts, enqueue(items, timestampMap, item, ts))
    /\ UNCHANGED drain

Dequeue ==
  /\ Apply("dequeue", 0, 0, dequeue(items, timestampMap))
  /\ UNCHANGED drain

Remove ==
  \E item \in Items :
    /\ Apply("remove", item, 0, remove(items, timestampMap, item))
    /\ UNCHANGED drain

Requeue ==
  \E item \in Items, ts \in Timestamps, now \in Clock :
    /\ Apply("requeue", item, ts, requeue(items, timestampMap, item, ts, now))
    /\ UNCHANGED drain

Next == Enqueue \/ Dequeue \/ Remove \/ Requeue

Spec == Init /\ [][Next]_vars

\* ------------------------------- callers that never enqueue twice
\* As Spec, but enqueue is only called with an item that is not in the
\* sequence (enqueuing an item that is already queued is left unspecified).
FreshEnqueue ==
  \E item \in Items, ts \in Timestamps :
    /\ item \notin Range(items)
    /\ Apply("enqueue", item, ts, enqueue(items, timestampMap, item, ts))
    /\ UNCHANGED drain

FreshNext == FreshEnqueue \/ Dequeue \/ Remove \/ Requeue

FreshSpec == Init /\ [][FreshNext]_vars

\* ------------------------------------------------ well-formed callers
\* Enqueue is only called with an item that is not in the sequence, and no
\* item is put into the queue while another item with the same key is held.
KeyFree(item) ==
  \A x \in (Range(items) \cup DOMAIN timestampMap) \ {item} : KeyOf(x) # KeyOf(item)

WfEnqueue ==
  \E item \in Items, ts \in Timestamps :
    /\ item \notin Range(items)
    /\ KeyFree(item)
    /\ Apply("enqueue", item, ts, enqueue(items, timestampMap, item, ts))
    /\ UNCHANGED drain

WfRequeue ==
  \E item \in Items, ts \in Timestamps, now \in Clock :
    /\ KeyFree(item)
    /\ Apply("requeue", item, ts, requeue(items, timestampMap, item, ts, now))
    /\ UNCHANGED drain

WfNext == WfEnqueue \/ Dequeue \/ Remove \/ WfRequeue

WfSpec == Init /\ [][WfNext]_vars

\* ------------------------------------------------- fill, then drain
\* N distinct items are enqueued into the empty queue, then dequeued.
FillEnqueue ==
  \E item \in Items, ts \in Timestamps :
    /\ drain.phase = "fill"
    /\ item \notin Range(items)
    /\ Apply("enqueue", item, ts, enqueue(items, timestampMap, item, ts))
    /\ UNCHANGED drain

DrainDequeue ==
  /\ items # <<>>
  /\ Apply("dequeue", 0, 0, dequeue(items, timestampMap))
  /\ drain' = [phase |-> "drain",
               out |-> Append(drain.out, dequeue(items, timestampMap).value),
               snap |-> IF drain.phase = "fill" THEN State ELSE drain.snap]

DrainNext == FillEnqueue \/ DrainDequeue

DrainSpec == Init /\ [][DrainNext]_vars

\* ================================================= properties of the calls
Count(s, x) == Cardinality({i \in 1..Len(s) : s[i] = x})
RECURSIVE Without(_, _)
Without(s, x) ==
  IF s = <<>> THEN <<>>
  ELSE IF Head(s) = x THEN Without(Tail(s), x) ELSE <<Head(s)>> \o Without(Tail(s), x)

\* a may stand directly before b: timestamp(a) < timestamp(b), or equal
\* timestamps and key(a) <= key(b)
InOrder(ta, ka, tb, kb) == ta < tb \/ (ta = tb /\ ~StrGreater(ka, kb))
PairInOrder(map, a, b) ==
  Has(map, a) /\ Has(map, b) /\ InOrder(map[a], KeyOf(a), map[b], KeyOf(b))
SortedUnder(s, map) == \A i \in 1..(Len(s) - 1) : PairInOrder(map, s[i], s[i + 1])

\* C1 (as stated): after any sequence of calls every adjacent pair of list()
\* is in (recorded timestamp, key) order.
C1_SortInvariant == SortedUnder(list, timestampMap)

\* C2: dequeue on a non-empty queue returns the item at index 0, leaves the
\* previous sequence without its first element, and deletes the returned
\* item's entry from the association.
C2_DequeueFront ==
  (op.name = "dequeue" /\ pre.items # <<>>) =>
    /\ ~ret.threw
    /\ ret.value = pre.items[1]
    /\ items = SubSeq(pre.items, 2, Len(pre.items))
    /\ ~Has(timestampMap, ret.value)
C2_Witness ==
  /\ op.name = "dequeue"
  /\ Len(pre.items) >= 2
  /\ pre.items[1] # pre.items[2]
  /\ Has(pre.map, pre.items[1])

\* C3: after enqueuing distinct items into the empty queue, consecutive
\* dequeues return the items of list() (as it was before the first dequeue)
\* in that order, which is non-decreasing in (timestamp, key); after as many
\* dequeues as there were items the queue is empty.
C3_DrainOrder ==
  drain.phase = "drain" =>
    /\ drain.out \o items = drain.snap.items
    /\ \A i \in 1..(Len(drain.out) - 1) :
         PairInOrder(drain.snap.map, drain.out[i], drain.out[i + 1])
    /\ SortedUnder(drain.snap.items, drain.snap.map)
    /\ (Len(drain.out) = Len(drain.snap.items) => list = <<>>)
C3_Witness ==
  /\ drain.phase = "drain"
  /\ items = <<>>
  /\ Len(drain.out) = MaxLen
  /\ \E i, j \in 1..Len(drain.out) :
       /\ drain.snap.map[drain.out[i]] # drain.snap.map[drain.out[j]]
  /\ \E i, j \in 1..Len(drain.out) :
       /\ i # j
       /\ drain.snap.map[drain.out[i]] = drain.snap.map[drain.out[j]]

\* C4 (as stated): remove(item) for an item in the sequence removes exactly
\* that item, keeps the others in order and deletes its entry.
C4_RemovePresent ==
  (op.name = "remove" /\ op.item \in Range(pre.items)) =>
    /\ ~ret.threw
    /\ op.item \notin Range(items)
    /\ items = Without(pre.items, op.item)
    /\ ~Has(timestampMap, op.item)

\* C5 (as stated): requeue(item, ts) for an item in the queue leaves it
\* exactly once in list(), placed in order for ts, the other members
\* unchanged and in the same relative order.
C5_RequeueRelocates ==
  (op.name = "requeue" /\ op.item \in Range(pre.items)) =>
    /\ ~ret.threw
    /\ Count(items, op.item) = 1
    /\ Without(items, op.item) = Without(pre.items, op.item)
    /\ Has(timestampMap, op.item) /\ timestampMap[op.item] = op.ts
    /\ \A i \in 1..(Len(items) - 1) :
         (items[i] = op.item \/ items[i + 1] = op.item) =>
           PairInOrder(timestampMap, items[i], items[i + 1])

\* C6 (as stated): every item of list() has an entry in the association and
\* no call raises the missing-timestamp fault.
C6_NoMissingTimestamp ==
  /\ \A i \in 1..Len(items) : Has(timestampMap, items[i])
  /\ ~ret.threw

\* C7 (as stated): an item has an entry in the association only if it occurs
\* in the sequence.
C7_AssociationCleanup == \A x \in DOMAIN timestampMap : x \in Range(items)

\* C8: remove(X) for an item without a recorded timestamp changes nothing and
\* raises no fault; removing it again changes nothing either.
C8_RemoveUntracked ==
  (op.name = "remove" /\ ~Has(pre.map, op.item)) =>
    /\ ~ret.threw
    /\ items = pre.items
    /\ timestampMap = pre.map
    /\ LET again == remove(items, timestampMap, op.item)
       IN ~again.threw /\ again.items = items /\ again.map = timestampMap
C8_Witness ==
  /\ op.name = "remove"
  /\ ~Has(pre.map, op.item)
  /\ Len(pre.items) >= 2
  /\ \A i \in 1..Len(pre.items) : Has(pre.map, pre.items[i])

\* C9: dequeue on an empty queue returns undefined, raises no fault and
\* leaves the sequence and the association unchanged.
C9_DequeueEmpty ==
  (op.name = "dequeue" /\ pre.items = <<>>) =>
    /\ ~ret.threw
    /\ ret.value = 0
    /\ items = <<>>
    /\ timestampMap = pre.map
C9_Witness ==
  /\ op.name = "dequeue"
  /\ pre.items = <<>>
  /\ items = <<>>
  /\ ret.value = 0

\* C10: a completed enqueue(item, t2) places the item by its recorded
\* timestamp t1 when it has one, and keeps t1; otherwise it places it by t2
\* and records t2.  Placed by t: the item is inserted right after the last
\* element that t (then key) comes strictly after.
PlacedBy(t, item, before, map, after) ==
  \E index \in 0..Len(before) :
    /\ after = SpliceIn(before, index, item)
    /\ index > 0 =>
         /\ Has(map, before[index])
         /\ ~InOrder(t, KeyOf(item), map[before[index]], KeyOf(before[index]))
    /\ \A j \in (index + 1)..Len(before) :
         /\ Has(map, before[j])
         /\ InOrder(t, KeyOf(item), map[before[j]], KeyOf(before[j]))
C10_EnqueueTimestamp ==
  (op.name = "enqueue" /\ ~ret.threw) =>
    LET t == IF Has(pre.map, op.item) THEN pre.map[op.item] ELSE op.ts IN
    /\ Has(timestampMap, op.item) /\ timestampMap[op.item] = t
    /\ \A x \in DOMAIN timestampMap : x # op.item => (Has(pre.map, x) /\ timestampMap[x] = pre.map[x])
    /\ PlacedBy(t, op.item, pre.items, pre.map, items)
C10_Witness ==
  /\ op.name = "enqueue"
  /\ ~ret.threw
  /\ Has(pre.map, op.item)
  /\ pre.map[op.item] # op.ts
  /\ Len(pre.items) >= 2
  /\ items[Len(items)] # op.item
  /\ items[1] # op.item

\* C11: after a requeue(item, ts) that completes, the item's recorded
\* timestamp is ts, whether or not the item was queued before and whatever
\* timestamp it had.
C11_RequeueTimestamp ==
  (op.name = "requeue" /\ ~ret.threw) =>
    Has(timestampMap, op.item) /\ timestampMap[op.item] = op.ts
C11_Witness ==
  /\ op.name = "requeue"
  /\ ~ret.threw
  /\ Has(pre.map, op.item)
  /\ pre.map[op.item] # op.ts
  /\ op.item \in Range(pre.items)
  /\ Len(pre.items) >= 2

\* C12 (as stated, the fault case): a call that raises the fault leaves the
\* sequence and the association exactly as they were before the call.
C12_AtomicOnFault ==
  ret.threw => (items = pre.items /\ timestampMap = pre.map)

\* the items of S in ascending (timestamp, key) order
Smallest(S, map) ==
  CHOOSE x \in S : \A y \in S : InOrder(map[x], KeyOf(x), map[y], KeyOf(y))
RECURSIVE SortAsc(_, _)
SortAsc(S, map) ==
  IF S = {} THEN <<>>
  ELSE <<Smallest(S, map)>> \o SortAsc(S \ {Smallest(S, map)}, map)
DistinctPairs(S, map) ==
  \A x, y \in S : x # y => (map[x] # map[y] \/ KeyOf(x) # KeyOf(y))

\* C13: distinct items with pairwise distinct (timestamp, key) pairs,
\* enqueued into the empty queue in any order, give the list sorted
\* ascending by timestamp and then by key.
C13_OrderIndependent ==
  (drain.phase = "fill" /\ DistinctPairs(DOMAIN timestampMap, timestampMap)) =>
    list = SortAsc(DOMAIN timestampMap, timestampMap)
C13_Witness ==
  /\ drain.phase = "fill"
  /\ Len(items) = MaxLen
  /\ DistinctPairs(DOMAIN timestampMap, timestampMap)
  /\ op.name = "enqueue"
  /\ items[Len(items)] # op.item
  /\ \E i \in 1..(Len(items) - 1) :
       /\ timestampMap[items[i]] = timestampMap[items[i + 1]]
       /\ KeyOf(items[i]) # KeyOf(items[i + 1])

\* C14 (as stated): for any item present in the sequence, the lookup by
\* identity returns an index at which that exact item sits, also when
\* another item has the same timestamp and key.
C14_LocatePresent ==
  \A x \in Range(items) :
    LET found == indexOfItemInQueue(items, timestampMap, x) IN
    /\ ~found.threw
    /\ found.index >= 0
    /\ found.index < Len(items)
    /\ items[found.index + 1] = x

\* the timestamp a call enqueue(item, ts) orders the item by
EffectiveTs == IF Has(pre.map, op.item) THEN pre.map[op.item] ELSE op.ts
\* the item at position j (1-based) before the call is less than or equal
\* to, strictly less than, equal to the new item in (timestamp, key) order
AtMostNew(j) ==
  /\ Has(pre.map, pre.items[j])
  /\ InOrder(pre.map[pre.items[j]], KeyOf(pre.items[j]), EffectiveTs, KeyOf(op.item))
BelowNew(j) ==
  /\ Has(pre.map, pre.items[j])
  /\ ~InOrder(EffectiveTs, KeyOf(op.item), pre.map[pre.items[j]], KeyOf(pre.items[j]))
EqualsNew(j) ==
  /\ Has(pre.map, pre.items[j])
  /\ pre.map[pre.items[j]] = EffectiveTs
  /\ KeyOf(pre.items[j]) = KeyOf(op.item)
\* the number of items up to and including the last one in J
LastOf(J) == IF J = {} THEN 0 ELSE CHOOSE j \in J : \A k \in J : k <= j

\* C15 (as stated): a completed enqueue inserts the new item right after the
\* last item that is less than or equal to it, hence after an item with the
\* same timestamp and key.
C15_AfterLastAtMost ==
  (op.name = "enqueue" /\ ~ret.threw) =>
    /\ items = SpliceIn(pre.items, LastOf({j \in 1..Len(pre.items) : AtMostNew(j)}), op.item)
    /\ \A j \in 1..Len(pre.items) :
         EqualsNew(j) => LastOf({k \in 1..Len(pre.items) : AtMostNew(k)}) >= j

\* C15 (amended): a completed enqueue inserts the new item right after the
\* last item that is strictly less than it (at index 0 if there is none),
\* hence before an item with the same timestamp and key, unless a strictly
\* smaller item sits behind that item.
C15_AfterLastBelow ==
  (op.name = "enqueue" /\ ~ret.threw) =>
    /\ items = SpliceIn(pre.items, LastOf({j \in 1..Len(pre.items) : BelowNew(j)}), op.item)
    /\ \A j \in 1..Len(pre.items) :
         (EqualsNew(j) /\ \A k \in (j + 1)..Len(pre.items) : ~BelowNew(k)) =>
           \E p \in 0..(j - 1) : items = SpliceIn(pre.items, p, op.item)
C15_Witness ==
  /\ op.name = "enqueue"
  /\ ~ret.threw
  /\ \E j \in 1..Len(pre.items) : EqualsNew(j) /\ pre.items[j] # op.item
  /\ \E j \in 1..Len(pre.items) : BelowNew(j)
  /\ items # Append(pre.items, op.item)

\* the backward scan of the call reaches an item without a timestamp: every
\* item behind it has one and does not end the scan
ScanReachesMissing ==
  \E j \in 1..Len(pre.items) :
    /\ ~Has(pre.map, pre.items[j])
    /\ \A k \in (j + 1)..Len(pre.items) : Has(pre.map, pre.items[k]) /\ ~BelowNew(k)
\* the binary search for needle probes an item without a timestamp
RECURSIVE SearchReachesMissing(_, _, _, _, _)
SearchReachesMissing(its, map, needle, l, r) ==
  IF l > r THEN FALSE
  ELSE LET mid == (l + r) \div 2
           hay == its[mid + 1]
       IN IF ~Has(map, hay) THEN TRUE
          ELSE IF hay = needle THEN FALSE
          ELSE IF map[needle] > map[hay]
                  \/ (map[needle] = map[hay] /\ StrGreater(KeyOf(needle), KeyOf(hay)))
               THEN SearchReachesMissing(its, map, needle, mid + 1, r)
               ELSE SearchReachesMissing(its, map, needle, l, mid - 1)
LookupReachesMissing ==
  /\ Has(pre.map, op.item)
  /\ SearchReachesMissing(pre.items, pre.map, op.item, 0, Len(pre.items) - 1)

\* C16: a call whose backward scan or binary search reaches an item without
\* a recorded timestamp ends with the fault instead of ordering that item by
\* a default; the fault is raised in no other case.
C16_MissingIsFault ==
  /\ op.name = "enqueue" =>
       /\ ret.threw <=> ScanReachesMissing
       /\ ret.threw => (items = pre.items /\ timestampMap = pre.map)
  /\ op.name = "remove" =>
       /\ ret.threw <=> LookupReachesMissing
       /\ ret.threw => (items = pre.items /\ timestampMap = pre.map)
  /\ op.name = "requeue" =>
       /\ LookupReachesMissing => (ret.threw /\ items = pre.items /\ timestampMap = pre.map)
       /\ ret.threw => \E j \in 1..Len(pre.items) : ~Has(pre.map, pre.items[j])
  /\ op.name = "dequeue" => ~ret.threw
C16_Witness ==
  /\ op.name = "enqueue"
  /\ ret.threw
  /\ Len(pre.items) >= 2
  /\ Has(pre.map, pre.items[Len(pre.items)])
  /\ ~Has(pre.map, pre.items[1])

\* C17 (as stated): requeue(item, ts) of an item that is not queued and has
\* no recorded timestamp behaves exactly like enqueue(item, ts): the item is
\* inserted once, the sequence grows by one, the others keep their order.
C17_RequeueAsEnqueue ==
  (op.name = "requeue" /\ op.item \notin Range(pre.items) /\ ~Has(pre.map, op.item)) =>
    LET e == enqueue(pre.items, pre.map, op.item, op.ts) IN
    /\ items = e.items
    /\ timestampMap = e.map
    /\ ret.threw = e.threw
    /\ Len(items) = Len(pre.items) + 1
    /\ Count(items, op.item) = 1
    /\ Without(items, op.item) = pre.items

\* C18: the lookup returns -1 or an index that holds the very item searched
\* for, so remove and requeue never take out another item, also when another
\* item has the same timestamp and key.
C18_IdentityOnlyHits ==
  /\ \A x \in Items :
       LET found == indexOfItemInQueue(items, timestampMap, x) IN
       (~found.threw /\ found.index # -1) =>
         /\ found.index >= 0
         /\ found.index < Len(items)
         /\ items[found.index + 1] = x
  /\ op.name = "remove" =>
       \/ items = pre.items
       \/ \E i \in 1..Len(pre.items) :
            pre.items[i] = op.item /\ items = SpliceOut(pre.items, i - 1)
  /\ op.name = "requeue" => Without(items, op.item) = Without(pre.items, op.item)
C18_Witness ==
  /\ op.name = "remove"
  /\ items # pre.items
  /\ \E x \in Range(items) :
       /\ x # op.item
       /\ KeyOf(x) = KeyOf(op.item)
       /\ pre.map[x] = pre.map[op.item]

\* C19: when enqueue is never called with an item that is in the sequence
\* and no two items share a key, no item occurs twice in list() and the
\* items with a recorded timestamp are exactly the items of list().
C19_SideTableExact ==
  /\ \A x \in Items : Count(list, x) <= 1
  /\ DOMAIN timestampMap = Range(list)
C19_Witness ==
  /\ op.name = "requeue"
  /\ op.item \in Range(pre.items)
  /\ items # pre.items
  /\ Len(items) >= 2
  /\ DOMAIN timestampMap = Range(list)

====
